---- MODULE Spec2Model ----
(***************************************************************************)
(* Model of CGAT/utils.py (clean_variant, get_chrom_start_stop) and of the  *)
(* result loops of Expression.py (parseCuffdiff, deseqParseResults,        *)
(* runEdgeR).  A Python str is a sequence of one-character strings, so     *)
(* that split, join, int and str are computed character by character.      *)
(***************************************************************************)
EXTENDS Integers, Sequences, FiniteSets, TLC

\* v, left, human_ref_pysam: the arguments of clean_variant (line 1)
\* pc: "ready" before the call, "called" after it, "recalled" after a second
\*     call on the string the first one returned
\* outcome: what the call returned or raised
\* frame: the call's locals b, e, ref_e, alt_e when it ended (lines 17-31)
\* outcome2: what the second call returned or raised
\* fetched: the human_ref_pysam.fetch calls made so far (line 10)
\* vs: the argument of get_chrom_start_stop (line 40)
\* span: what get_chrom_start_stop returned or raised
\* infile: the lines of the cuffdiff .diff file given to parseCuffdiff
\* lineno: how many lines of infile the loop of parseCuffdiff has consumed
\* min_fpkm: PARAMS["cuffdiff_fpkm_expressed"]
\* results: the list parseCuffdiff, deseqParseResults or runEdgeR builds
\* calls: per thread, the call it runs (function, arguments, the statement it
\*     is at, its locals other than the scan variables, its result)
\* frames: per call frame, the scan variables b, e, ref_e, alt_e
\* cleaned: [clean_variant(x, left, human_ref_pysam) for x in vs], or what
\*     it raised
\* cleaned_span: what get_chrom_start_stop returned or raised for cleaned
\* parser: which result loop runs, that of deseqParseResults or of runEdgeR
\* res: the rows of R's result table (R['res'], or lrt$table with padj)
\* fdr: the argument fdr, in hundredths
\* rowno: how many rows of res the loop has consumed
\* counts: the E.Counter of the loop
VARIABLES v, left, human_ref_pysam, pc, outcome, frame, outcome2, fetched,
          vs, span, infile, lineno, min_fpkm, results, calls, frames,
          cleaned, cleaned_span, parser, res, fdr, rowno, counts

cuffVars == <<infile, lineno, min_fpkm, results>>

concVars == <<calls, frames>>

pipeVars == <<cleaned, cleaned_span>>

exprVars == <<parser, res, fdr, rowno, counts>>

vars == <<v, left, human_ref_pysam, pc, outcome, frame, outcome2, fetched,
          vs, span, infile, lineno, min_fpkm, results, calls, frames,
          cleaned, cleaned_span, parser, res, fdr, rowno, counts>>

----------------------------------------------------------------------------
(* Bounds of the model *)

\* longest allele field generated over Bases
MaxAllele == 3

\* most entries in the collection given to get_chrom_start_stop
MaxVariants == 2

\* most lines in the file given to parseCuffdiff
MaxLines == 2

\* most rows in the result table read by deseqParseResults and runEdgeR
MaxRows == 2

----------------------------------------------------------------------------
(* Python built-ins used by the code *)

Min(a, b) == IF a < b THEN a ELSE b

\* s[i] with a 0-based, non-negative index
Idx(s, i) == s[i + 1]

\* s[lo:hi] with non-negative lo, hi (Python clamps both to len(s))
Slice(s, lo, hi) == SubSeq(s, Min(lo, Len(s)) + 1, Min(hi, Len(s)))

RECURSIVE SplitFrom(_, _, _, _)
SplitFrom(s, i, cur, acc) ==
    IF i > Len(s) THEN Append(acc, cur)
    ELSE IF s[i] = "-" THEN SplitFrom(s, i + 1, <<>>, Append(acc, cur))
    ELSE SplitFrom(s, i + 1, Append(cur, s[i]), acc)

\* v.split('-')
split(s) == SplitFrom(s, 1, <<>>, <<>>)

RECURSIVE join(_)
\* '-'.join(fields)
join(fields) ==
    IF Len(fields) = 0 THEN <<>>
    ELSE IF Len(fields) = 1 THEN fields[1]
    ELSE fields[1] \o <<"-">> \o join(Tail(fields))

DigitChars == <<"0", "1", "2", "3", "4", "5", "6", "7", "8", "9">>

IsDigit(c) == \E d \in 1..Len(DigitChars) : DigitChars[d] = c

DigitVal(c) == (CHOOSE d \in 1..Len(DigitChars) : DigitChars[d] = c) - 1

\* the digits of an int literal after its optional sign
Unsigned(s) == IF Len(s) > 0 /\ s[1] \in {"+", "-"} THEN Tail(s) ELSE s

\* int(s) succeeds (input alphabet has no whitespace and no underscore)
IntOk(s) ==
    /\ Len(Unsigned(s)) > 0
    /\ \A i \in 1..Len(Unsigned(s)) : IsDigit(Unsigned(s)[i])

RECURSIVE NatVal(_)
NatVal(ds) ==
    IF Len(ds) = 0 THEN 0
    ELSE 10 * NatVal(SubSeq(ds, 1, Len(ds) - 1)) + DigitVal(ds[Len(ds)])

\* int(s), for s with IntOk(s)
int(s) == IF Len(s) > 0 /\ s[1] = "-" THEN 0 - NatVal(Unsigned(s)) ELSE NatVal(Unsigned(s))

RECURSIVE StrNat(_)
StrNat(n) ==
    IF n < 10 THEN <<DigitChars[n + 1]>>
    ELSE StrNat(n \div 10) \o <<DigitChars[(n % 10) + 1]>>

\* str(n)
str(n) == IF n < 0 THEN <<"-">> \o StrNat(0 - n) ELSE StrNat(n)

----------------------------------------------------------------------------
(* Results of a call *)

NoLocals == [b |-> 0, e |-> 0, ref_e |-> 0, alt_e |-> 0, bound |-> {}]

Return(s, L, f) == [kind |-> "return", exc |-> "", value |-> s, locals |-> L, fetches |-> f]

Raise(x, L, f) == [kind |-> "raise", exc |-> x, value |-> <<>>, locals |-> L, fetches |-> f]

----------------------------------------------------------------------------
(* clean_variant *)

\* human_ref_pysam is None, or an accessor object
None == "None"
Accessor == "Accessor"

\* set(['*','-'])
Sentinels == {<<"*">>, <<"-">>}

\* line 10: human_ref_pysam.fetch(chrom, pos-2, pos-1); resp is what the
\* accessor answers (a string, or an error of its own)
FetchCall(chrom, pos, resp) ==
    [chrom |-> chrom, start |-> pos - 2, end |-> pos - 1, resp |-> resp]

\* mutant: the anchor base is prepended but the position is not moved
SentinelReturnSamePos(chrom, pos, ref, base) ==
    join(<<chrom, str(pos), base \o ref, base>>)

\* line 11
SentinelReturn(chrom, pos, ref, base) ==
    join(<<chrom, str(pos - 1), base \o ref, base>>)

\* mutant: line 7's test is missing, so fetch is looked up on None
SentinelPathNoCheck(chrom, pos, ref, accessor, resp) ==
    IF accessor = None THEN Raise("AttributeError", NoLocals, <<>>)
    ELSE IF resp.raises
    THEN Raise("AccessorError", NoLocals, <<FetchCall(chrom, pos, resp)>>)
    ELSE Return(SentinelReturn(chrom, pos, ref, resp.base), NoLocals,
                <<FetchCall(chrom, pos, resp)>>)

\* mutant: an error of the accessor is swallowed and a default base is used
SentinelPathFallback(chrom, pos, ref, accessor, resp) ==
    IF accessor = None THEN Raise("ValueError: need human ref pysam", NoLocals, <<>>)
    ELSE IF resp.raises
    THEN Return(SentinelReturn(chrom, pos, ref, <<"N">>), NoLocals,
                <<FetchCall(chrom, pos, resp)>>)
    ELSE Return(SentinelReturn(chrom, pos, ref, resp.base), NoLocals,
                <<FetchCall(chrom, pos, resp)>>)

\* mutant: a fetched string that is not one character long is refused
SentinelPathValidating(chrom, pos, ref, accessor, resp) ==
    IF accessor = None THEN Raise("ValueError: need human ref pysam", NoLocals, <<>>)
    ELSE IF resp.raises
    THEN Raise("AccessorError", NoLocals, <<FetchCall(chrom, pos, resp)>>)
    ELSE IF Len(resp.base) # 1
    THEN Raise("ValueError: base", NoLocals, <<FetchCall(chrom, pos, resp)>>)
    ELSE Return(SentinelReturn(chrom, pos, ref, resp.base), NoLocals,
                <<FetchCall(chrom, pos, resp)>>)

\* lines 7-11
SentinelPath(chrom, pos, ref, accessor, resp) ==
    IF accessor = None THEN Raise("ValueError: need human ref pysam", NoLocals, <<>>)
    ELSE IF resp.raises
    THEN Raise("AccessorError", NoLocals, <<FetchCall(chrom, pos, resp)>>)
    ELSE Return(SentinelReturn(chrom, pos, ref, resp.base), NoLocals,
                <<FetchCall(chrom, pos, resp)>>)

\* lines 12-15: len(ran)
RanLen(ref, alt) == IF Len(ref) < Len(alt) THEN Len(ref) ELSE Len(alt)

\* lines 18-19 (and 28-29): the body's assignments for loop value e
BindEnd(ref, alt, e, L) ==
    [L EXCEPT !.e = e, !.ref_e = Len(ref) - e - 1, !.alt_e = Len(alt) - e - 1,
              !.bound = @ \cup {"e", "ref_e", "alt_e"}]

BindStart(b, L) == [L EXCEPT !.b = b, !.bound = @ \cup {"b"}]

\* line 22 (and 30): the length-1 guard on the slices still open
Guard(ref, alt, L) ==
    \/ Len(Slice(ref, L.b, L.ref_e + 1)) = 1
    \/ Len(Slice(alt, L.b, L.alt_e + 1)) = 1

RECURSIVE LeftEndLoop(_, _, _, _, _)
LeftEndLoop(ref, alt, n, e, L) ==
    IF e >= n THEN L
    ELSE LET L1 == BindEnd(ref, alt, e, L)
         IN  IF Idx(ref, L1.ref_e) # Idx(alt, L1.alt_e) THEN L1
             ELSE LeftEndLoop(ref, alt, n, e + 1, L1)

\* mutant: the end scan of the left branch never breaks on a mismatch
LeftEndScanExhaust(ref, alt, n, L) == IF n > 0 THEN BindEnd(ref, alt, n - 1, L) ELSE L

\* mutant: the end scan of the left branch stops at its first iteration
LeftEndScanFirstOnly(ref, alt, n, L) == IF n > 0 THEN BindEnd(ref, alt, 0, L) ELSE L

\* lines 17-20
LeftEndScan(ref, alt, n, L) == LeftEndLoop(ref, alt, n, 0, L)

RECURSIVE LeftStartLoop(_, _, _, _, _)
LeftStartLoop(ref, alt, n, b, L) ==
    IF b >= n THEN L
    ELSE LET L1 == BindStart(b, L)
         IN  IF Idx(ref, b) # Idx(alt, b) \/ Guard(ref, alt, L1) THEN L1
             ELSE LeftStartLoop(ref, alt, n, b + 1, L1)

RECURSIVE LeftStartLoopGuardAt2(_, _, _, _, _)
LeftStartLoopGuardAt2(ref, alt, n, b, L) ==
    IF b >= n THEN L
    ELSE LET L1 == BindStart(b, L)
         IN  IF \/ Idx(ref, b) # Idx(alt, b)
                \/ Len(Slice(ref, b, L1.ref_e + 1)) <= 2
                \/ Len(Slice(alt, b, L1.alt_e + 1)) <= 2
             THEN L1
             ELSE LeftStartLoopGuardAt2(ref, alt, n, b + 1, L1)

\* mutant: the guard stops while two characters remain
LeftStartScanGuardAt2(ref, alt, n, L) == LeftStartLoopGuardAt2(ref, alt, n, 0, L)

RECURSIVE LeftStartLoopNoGuard(_, _, _, _, _)
LeftStartLoopNoGuard(ref, alt, n, b, L) ==
    IF b >= n THEN L
    ELSE LET L1 == BindStart(b, L)
         IN  IF Idx(ref, b) # Idx(alt, b) THEN L1
             ELSE LeftStartLoopNoGuard(ref, alt, n, b + 1, L1)

\* mutant: the start scan of the left branch without its length-1 guard
LeftStartScanNoGuard(ref, alt, n, L) == LeftStartLoopNoGuard(ref, alt, n, 0, L)

\* lines 21-23
LeftStartScan(ref, alt, n, L) == LeftStartLoop(ref, alt, n, 0, L)

RECURSIVE RightStartLoop(_, _, _, _, _)
RightStartLoop(ref, alt, n, b, L) ==
    IF b >= n THEN L
    ELSE LET L1 == BindStart(b, L)
         IN  IF Idx(ref, b) # Idx(alt, b) THEN L1
             ELSE RightStartLoop(ref, alt, n, b + 1, L1)

\* mutant: the start scan of the right branch stops at its first iteration
RightStartScanStuck(ref, alt, n, L) == IF n > 0 THEN BindStart(0, L) ELSE L

\* mutant: the start scan of the right branch never breaks on a mismatch
RightStartScanLast(ref, alt, n, L) == IF n > 0 THEN BindStart(n - 1, L) ELSE L

\* lines 25-26
RightStartScan(ref, alt, n, L) == RightStartLoop(ref, alt, n, 0, L)

RECURSIVE RightEndLoop(_, _, _, _, _)
RightEndLoop(ref, alt, n, e, L) ==
    IF e >= n THEN L
    ELSE LET L1 == BindEnd(ref, alt, e, L)
         IN  IF Idx(ref, L1.ref_e) # Idx(alt, L1.alt_e) \/ Guard(ref, alt, L1) THEN L1
             ELSE RightEndLoop(ref, alt, n, e + 1, L1)

RECURSIVE RightEndLoopNoGuard(_, _, _, _, _)
RightEndLoopNoGuard(ref, alt, n, e, L) ==
    IF e >= n THEN L
    ELSE LET L1 == BindEnd(ref, alt, e, L)
         IN  IF Idx(ref, L1.ref_e) # Idx(alt, L1.alt_e) THEN L1
             ELSE RightEndLoopNoGuard(ref, alt, n, e + 1, L1)

\* mutant: the end scan of the right branch without its length-1 guard
RightEndScanNoGuard(ref, alt, n, L) == RightEndLoopNoGuard(ref, alt, n, 0, L)

\* lines 27-31
RightEndScan(ref, alt, n, L) == RightEndLoop(ref, alt, n, 0, L)

\* mutant: the position is written back without the trimmed prefix
TrimReturnSamePos(chrom, pos, ref, alt, L) ==
    join(<<chrom, str(pos), Slice(ref, L.b, L.ref_e + 1), Slice(alt, L.b, L.alt_e + 1)>>)

\* mutant: the slices end at ref_e and alt_e instead of one past them
TrimReturnOpenEnd(chrom, pos, ref, alt, L) ==
    join(<<chrom, str(pos + L.b), Slice(ref, L.b, L.ref_e), Slice(alt, L.b, L.alt_e)>>)

\* line 33
TrimReturn(chrom, pos, ref, alt, L) ==
    join(<<chrom, str(pos + L.b), Slice(ref, L.b, L.ref_e + 1), Slice(alt, L.b, L.alt_e + 1)>>)

\* lines 12-33; line 33 reads b, ref_e and alt_e, which no loop iteration
\* has bound when ran is empty
TrimPath(chrom, pos, ref, alt, align_left) ==
    LET n == RanLen(ref, alt)
        L == IF align_left
             THEN LeftStartScan(ref, alt, n, LeftEndScan(ref, alt, n, NoLocals))
             ELSE RightEndScan(ref, alt, n, RightStartScan(ref, alt, n, NoLocals))
    IN  IF {"b", "ref_e", "alt_e"} \subseteq L.bound
        THEN Return(TrimReturn(chrom, pos, ref, alt, L), L, <<>>)
        ELSE Raise("UnboundLocalError", L, <<>>)

\* mutant: unpacking keeps the first four fields of a longer split
UnpackOkLenient(fields) == Len(fields) >= 4

\* line 3: chrom,pos,ref,alt = ... needs exactly four values
UnpackOk(fields) == Len(fields) = 4

\* mutant: the base is fetched before the alternate is looked at, whenever
\* an accessor is given
clean_variantEagerFetch(s, align_left, accessor, resp) ==
    LET fields == split(s)
    IN  IF ~UnpackOk(fields) THEN Raise("ValueError: unpack", NoLocals, <<>>)
        ELSE IF ~IntOk(fields[2]) THEN Raise("ValueError: int", NoLocals, <<>>)
        ELSE IF fields[4] \in Sentinels \/ accessor # None
        THEN SentinelPath(fields[1], int(fields[2]), fields[3], accessor, resp)
        ELSE TrimPath(fields[1], int(fields[2]), fields[3], fields[4], align_left)

\* lines 1-33
clean_variant(s, align_left, accessor, resp) ==
    LET fields == split(s)
    IN  IF ~UnpackOk(fields) THEN Raise("ValueError: unpack", NoLocals, <<>>)
        ELSE IF ~IntOk(fields[2]) THEN Raise("ValueError: int", NoLocals, <<>>)
        ELSE IF fields[4] \in Sentinels
        THEN SentinelPath(fields[1], int(fields[2]), fields[3], accessor, resp)
        ELSE TrimPath(fields[1], int(fields[2]), fields[3], fields[4], align_left)

----------------------------------------------------------------------------
(* get_chrom_start_stop *)

NoSpan == [kind |-> "none", exc |-> "", chrom |-> <<>>, start |-> 0, stop |-> 0]

SpanReturn(chrom, start, stop) ==
    [kind |-> "return", exc |-> "", chrom |-> chrom, start |-> start, stop |-> stop]

SpanRaise(x) == [kind |-> "raise", exc |-> x, chrom |-> <<>>, start |-> 0, stop |-> 0]

RECURSIVE SeqMin(_)
\* min(xs), for a non-empty xs
SeqMin(xs) ==
    IF Len(xs) = 1 THEN xs[1]
    ELSE LET m == SeqMin(Tail(xs)) IN IF xs[1] <= m THEN xs[1] ELSE m

RECURSIVE SeqMax(_)
\* max(xs), for a non-empty xs
SeqMax(xs) ==
    IF Len(xs) = 1 THEN xs[1]
    ELSE LET m == SeqMax(Tail(xs)) IN IF xs[1] >= m THEN xs[1] ELSE m

\* line 41: vs[0].split('-')[0]
SpanChrom(xs) == split(xs[1])[1]

\* mutant: entries that would not parse are dropped
SplitAllSkipping(xs) ==
    LET ok(x) == Len(split(x)) >= 3 /\ IntOk(split(x)[2])
        kept == SelectSeq(xs, ok)
    IN  [i \in 1..Len(kept) |-> split(kept[i])]

\* mutant: entries on another chromosome than the first are dropped
SplitAllSameChrom(xs) ==
    LET same(x) == split(x)[1] = split(xs[1])[1]
        kept == SelectSeq(xs, same)
    IN  [i \in 1..Len(kept) |-> split(kept[i])]

\* line 42: vs_arrays
SplitAll(xs) == [i \in 1..Len(xs) |-> split(xs[i])]

\* line 43: the exception of the first entry for which int(v[1]) fails, or ""
StartsError(arrays) ==
    LET bad == {i \in 1..Len(arrays) : Len(arrays[i]) < 2 \/ ~IntOk(arrays[i][2])}
    IN  IF bad = {} THEN ""
        ELSE LET i == CHOOSE k \in bad : \A j \in bad : k <= j
             IN  IF Len(arrays[i]) < 2 THEN "IndexError" ELSE "ValueError: int"

\* line 43: starts
SpanStarts(arrays) == [i \in 1..Len(arrays) |-> int(arrays[i][2])]

\* mutant: an entry must also have a fourth field, the alternate
StopsErrorStrict(arrays) ==
    IF \E i \in 1..Len(arrays) : Len(arrays[i]) # 4 THEN "IndexError" ELSE ""

\* line 44: the exception of the first entry that has no third field, or ""
StopsError(arrays) ==
    IF \E i \in 1..Len(arrays) : Len(arrays[i]) < 3 THEN "IndexError" ELSE ""

\* mutant: the length of the reference is not added
SpanStopsNoLen(starts, arrays) == starts

\* line 44: stops
SpanStops(starts, arrays) ==
    [i \in 1..Len(arrays) |-> starts[i] + Len(arrays[i][3])]

\* mutant: the start is not padded
SpanStartNoPad(starts) == SeqMin(starts)

\* line 45
SpanStart(starts) == SeqMin(starts) - 1

\* line 46
SpanStop(stops) == SeqMax(stops) + 1

\* lines 40-47
get_chrom_start_stop(xs) ==
    IF Len(xs) = 0 THEN SpanRaise("IndexError")
    ELSE LET chrom == SpanChrom(xs)
             arrays == SplitAll(xs)
         IN  IF StartsError(arrays) # "" THEN SpanRaise(StartsError(arrays))
             ELSE IF StopsError(arrays) # "" THEN SpanRaise(StopsError(arrays))
             ELSE IF Len(arrays) = 0 THEN SpanRaise("ValueError: min() arg is an empty sequence")
             ELSE LET starts == SpanStarts(arrays)
                      stops == SpanStops(starts, arrays)
                  IN  SpanReturn(chrom, SpanStart(starts), SpanStop(stops))

----------------------------------------------------------------------------
(* Values of the variables a specification does not use *)

NoCleaned == [kind |-> "none", exc |-> "", value |-> <<>>]

\* E.Counter(): every counter reads 0 until it is incremented
NoCounts ==
    [input |-> 0, output |-> 0, significant |-> 0, insignificant |-> 0,
     significant_over |-> 0, significant_under |-> 0, all_over |-> 0,
     all_under |-> 0, OK |-> 0, FAIL |-> 0]

PipeIdle == cleaned = NoCleaned /\ cleaned_span = NoSpan

ExprIdle == parser = "" /\ res = <<>> /\ fdr = 0 /\ rowno = 0 /\ counts = NoCounts

----------------------------------------------------------------------------
(* Inputs *)

Bases == {"A", "T"}

AlleleFields == UNION {[1..k -> Bases] : k \in 0..MaxAllele} \cup {<<"*">>}

ChromFields == {<<"1">>, <<"X">>}

PosFields == {<<"1", "0", "0">>, <<"0">>, <<"+", "5">>, <<"0", "7">>, <<"x">>, <<>>}

\* "1-100-ATG-ATC"
ExampleTrim == <<"1", "-", "1", "0", "0", "-", "A", "T", "G", "-", "A", "T", "C">>

\* "1-100-A-*"
ExampleSentinel == <<"1", "-", "1", "0", "0", "-", "A", "-", "*">>

\* four fields; three fields; and an alternate written as '-', which puts
\* two empty fields after the reference
Inputs ==
    {join(<<c, p, r, a>>) : c \in ChromFields, p \in PosFields,
                            r \in AlleleFields, a \in AlleleFields}
    \cup {join(<<c, p, r>>) : c \in ChromFields, p \in PosFields, r \in AlleleFields}
    \cup {join(<<c, p, r>>) \o <<"-", "-">> :
              c \in ChromFields, p \in PosFields, r \in AlleleFields}
    \cup {ExampleTrim, ExampleSentinel}

\* what fetch may answer: one base, nothing, two bases, or an error
FetchResponses ==
    {[raises |-> FALSE, base |-> <<"G">>], [raises |-> FALSE, base |-> <<>>],
     [raises |-> FALSE, base |-> <<"G", "A">>], [raises |-> TRUE, base |-> <<>>]}

----------------------------------------------------------------------------
(* Calls *)

NoOutcome == [kind |-> "none", exc |-> "", value |-> <<>>]

Outcome(r) == [kind |-> r.kind, exc |-> r.exc, value |-> r.value]

Init ==
    /\ v \in Inputs
    /\ left \in BOOLEAN
    /\ human_ref_pysam \in {None, Accessor}
    /\ pc = "ready"
    /\ outcome = NoOutcome
    /\ frame = NoLocals
    /\ outcome2 = NoOutcome
    /\ fetched = <<>>
    /\ vs = <<>>
    /\ span = NoSpan
    /\ infile = <<>>
    /\ lineno = 0
    /\ min_fpkm = 1
    /\ results = <<>>
    /\ calls = <<>>
    /\ frames = <<>>
    /\ PipeIdle
    /\ ExprIdle

\* clean_variant(v, left, human_ref_pysam)
Normalize ==
    /\ pc = "ready"
    /\ \E resp \in FetchResponses :
          LET r == clean_variant(v, left, human_ref_pysam, resp)
          IN  /\ outcome' = Outcome(r)
              /\ frame' = r.locals
              /\ fetched' = fetched \o r.fetches
    /\ pc' = "called"
    /\ UNCHANGED <<v, left, human_ref_pysam, outcome2, vs, span>>
    /\ UNCHANGED cuffVars
    /\ UNCHANGED concVars
    /\ UNCHANGED pipeVars
    /\ UNCHANGED exprVars

\* clean_variant(clean_variant(v, left, human_ref_pysam), left, human_ref_pysam)
Renormalize ==
    /\ pc = "called"
    /\ outcome.kind = "return"
    /\ \E resp \in FetchResponses :
          LET r == clean_variant(outcome.value, left, human_ref_pysam, resp)
          IN  /\ outcome2' = Outcome(r)
              /\ fetched' = fetched \o r.fetches
    /\ pc' = "recalled"
    /\ UNCHANGED <<v, left, human_ref_pysam, outcome, frame, vs, span>>
    /\ UNCHANGED cuffVars
    /\ UNCHANGED concVars
    /\ UNCHANGED pipeVars
    /\ UNCHANGED exprVars

Next == Normalize \/ Renormalize

Spec == Init /\ [][Next]_vars

----------------------------------------------------------------------------
(* Calls of get_chrom_start_stop *)

SpanPosFields == {<<"1", "0", "0">>, <<"1", "0", "5">>, <<"x">>}

SpanRefFields == {<<>>, <<"A">>, <<"G", "G">>}

\* what follows the reference: nothing, an alternate, or the alternate '-'
SpanTails == {<<>>, <<"-", "G">>, <<"-", "-">>}

\* "1-100-A-T"
ExampleSpanA == <<"1", "-", "1", "0", "0", "-", "A", "-", "T">>

\* "1-105-GG-G"
ExampleSpanB == <<"1", "-", "1", "0", "5", "-", "G", "G", "-", "G">>

SpanEntries ==
    {join(<<c, p, r>>) \o t : c \in ChromFields, p \in SpanPosFields,
                              r \in SpanRefFields, t \in SpanTails}
    \cup {<<"1">>, <<"1", "-", "1", "0", "0">>, ExampleSpanA, ExampleSpanB}

SpanInputs == UNION {[1..k -> SpanEntries] : k \in 0..MaxVariants}

SpanInit ==
    /\ vs \in SpanInputs
    /\ span = NoSpan
    /\ pc = "ready"
    /\ v = <<>>
    /\ left = TRUE
    /\ human_ref_pysam = None
    /\ outcome = NoOutcome
    /\ frame = NoLocals
    /\ outcome2 = NoOutcome
    /\ fetched = <<>>
    /\ infile = <<>>
    /\ lineno = 0
    /\ min_fpkm = 1
    /\ results = <<>>
    /\ calls = <<>>
    /\ frames = <<>>
    /\ PipeIdle
    /\ ExprIdle

\* get_chrom_start_stop(vs)
SpanOf ==
    /\ pc = "ready"
    /\ span' = get_chrom_start_stop(vs)
    /\ pc' = "spanned"
    /\ UNCHANGED <<v, left, human_ref_pysam, outcome, frame, outcome2, fetched, vs>>
    /\ UNCHANGED cuffVars
    /\ UNCHANGED concVars
    /\ UNCHANGED pipeVars
    /\ UNCHANGED exprVars

SpanNext == SpanOf

SpanSpec == SpanInit /\ [][SpanNext]_vars

----------------------------------------------------------------------------
(* get_chrom_start_stop before and after clean_variant is applied to every *)
(* entry of the collection                                                  *)

PipeAlleles == {<<"A", "A">>, <<"T", "A">>, <<"A", "T", "A">>}

PipePosFields == {<<"9">>, <<"1", "1">>}

\* "1-9-A-TA", an insertion after its anchor base
PipeAnchored == <<"1", "-", "9", "-", "A", "-", "T", "A">>

PipeVariants ==
    {join(<<(<<"1">>), p, r, a>>) : p \in PipePosFields, r \in PipeAlleles, a \in PipeAlleles}
    \cup {PipeAnchored}

\* "1-9-AA-*" and "1-0-A-*"
PipeSentinels ==
    {<<"1", "-", "9", "-", "A", "A", "-", "*">>, <<"1", "-", "0", "-", "A", "-", "*">>}

PipeInputs ==
    UNION {[1..k -> PipeVariants] : k \in 0..MaxVariants}
    \cup {<<x>> : x \in PipeSentinels}

RECURSIVE CleanFrom(_, _, _, _, _, _, _)
\* the list comprehension from entry i on: the first call that raises ends it
CleanFrom(xs, i, align_left, accessor, resp, done, f) ==
    IF i > Len(xs) THEN [kind |-> "return", exc |-> "", value |-> done, fetches |-> f]
    ELSE LET r == clean_variant(xs[i], align_left, accessor, resp)
         IN  IF r.kind = "raise"
             THEN [kind |-> "raise", exc |-> r.exc, value |-> <<>>, fetches |-> f \o r.fetches]
             ELSE CleanFrom(xs, i + 1, align_left, accessor, resp,
                            Append(done, r.value), f \o r.fetches)

\* [clean_variant(x, left, human_ref_pysam) for x in xs]
CleanAll(xs, align_left, accessor, resp) ==
    CleanFrom(xs, 1, align_left, accessor, resp, <<>>, <<>>)

PipeInit ==
    /\ vs \in PipeInputs
    /\ left \in BOOLEAN
    /\ human_ref_pysam \in {None, Accessor}
    /\ span = NoSpan
    /\ cleaned = NoCleaned
    /\ cleaned_span = NoSpan
    /\ pc = "ready"
    /\ v = <<>>
    /\ outcome = NoOutcome
    /\ frame = NoLocals
    /\ outcome2 = NoOutcome
    /\ fetched = <<>>
    /\ infile = <<>>
    /\ lineno = 0
    /\ min_fpkm = 1
    /\ results = <<>>
    /\ calls = <<>>
    /\ frames = <<>>
    /\ ExprIdle

\* [clean_variant(x, left, human_ref_pysam) for x in vs]
NormalizeAll ==
    /\ pc = "spanned"
    /\ \E resp \in FetchResponses :
          LET r == CleanAll(vs, left, human_ref_pysam, resp)
          IN  /\ cleaned' = [kind |-> r.kind, exc |-> r.exc, value |-> r.value]
              /\ fetched' = fetched \o r.fetches
    /\ pc' = "cleaned"
    /\ UNCHANGED <<v, left, human_ref_pysam, outcome, frame, outcome2, vs, span,
                   cleaned_span>>
    /\ UNCHANGED cuffVars
    /\ UNCHANGED concVars
    /\ UNCHANGED exprVars

\* get_chrom_start_stop on the cleaned collection
SpanCleaned ==
    /\ pc = "cleaned"
    /\ cleaned.kind = "return"
    /\ cleaned_span' = get_chrom_start_stop(cleaned.value)
    /\ pc' = "respanned"
    /\ UNCHANGED <<v, left, human_ref_pysam, outcome, frame, outcome2, fetched, vs,
                   span, cleaned>>
    /\ UNCHANGED cuffVars
    /\ UNCHANGED concVars
    /\ UNCHANGED exprVars

PipeNext == SpanOf \/ NormalizeAll \/ SpanCleaned

PipeSpec == PipeInit /\ [][PipeNext]_vars

----------------------------------------------------------------------------
(* Expression.py: parseCuffdiff *)

\* float(s) for the value texts of the model, which are plain digit strings
float(s) == NatVal(s)

\* the line of column names, which starts with "test_id"
HeaderLine == [header |-> TRUE, status |-> "", value_1 |-> <<>>, value_2 |-> <<>>,
               l2fold |-> "", significant |-> ""]

CuffStatuses == {"OK", "FAIL", "NOTEST"}

\* texts of value_1 and value_2
FpkmTexts == {<<"0">>, <<"2">>}

\* texts of l2fold: one whose power of two is a float, one whose is not
L2foldTexts == {"1", "2000"}

DataLines ==
    [header : {FALSE}, status : CuffStatuses, value_1 : FpkmTexts,
     value_2 : FpkmTexts, l2fold : L2foldTexts, significant : {"yes", "no"}]

CuffLines == DataLines \cup {HeaderLine}

\* line 1229: [0,1][data.significant == "yes"]
Significant(data) == IF data.significant = "yes" THEN 1 ELSE 0

\* mutant: NOCALL only when both values are below the threshold
CuffStatusBothBelow(data, fpkm) ==
    IF data.status = "OK" /\ (float(data.value_1) < fpkm /\ float(data.value_2) < fpkm)
    THEN "NOCALL"
    ELSE data.status

\* lines 1228-1231
CuffStatus(data, fpkm) ==
    IF data.status = "OK" /\ (float(data.value_1) < fpkm \/ float(data.value_2) < fpkm)
    THEN "NOCALL"
    ELSE data.status

\* lines 1233-1234: math.pow(2.0, float(data.l2fold)), "na" on OverflowError
Fold(data) == IF data.l2fold = "2000" THEN "na" ELSE "2.0"

\* lines 1236-1249: the row appended for a data line
CuffRow(data, fpkm) ==
    [treatment_mean |-> data.value_1, control_mean |-> data.value_2,
     l2fold |-> data.l2fold, fold |-> Fold(data),
     significant |-> Significant(data), status |-> CuffStatus(data, fpkm)]

CuffInit ==
    /\ infile \in UNION {[1..k -> CuffLines] : k \in 0..MaxLines}
    /\ min_fpkm \in {1, 2}
    /\ lineno = 0
    /\ results = <<>>
    /\ pc = "parsing"
    /\ v = <<>>
    /\ left = TRUE
    /\ human_ref_pysam = None
    /\ outcome = NoOutcome
    /\ frame = NoLocals
    /\ outcome2 = NoOutcome
    /\ fetched = <<>>
    /\ vs = <<>>
    /\ span = NoSpan
    /\ calls = <<>>
    /\ frames = <<>>
    /\ PipeIdle
    /\ ExprIdle

CuffFrame ==
    /\ UNCHANGED <<v, left, human_ref_pysam, outcome, frame, outcome2, fetched, vs, span,
                   infile, min_fpkm, calls, frames>>
    /\ UNCHANGED pipeVars
    /\ UNCHANGED exprVars

\* line 1226: a line that starts with "test_id" is skipped
CuffSkipHeader ==
    /\ pc = "parsing"
    /\ lineno < Len(infile)
    /\ infile[lineno + 1].header
    /\ lineno' = lineno + 1
    /\ UNCHANGED <<pc, results>>
    /\ CuffFrame

\* lines 1227-1249: one iteration of the loop on a data line
CuffParseLine ==
    /\ pc = "parsing"
    /\ lineno < Len(infile)
    /\ ~infile[lineno + 1].header
    /\ results' = Append(results, CuffRow(infile[lineno + 1], min_fpkm))
    /\ lineno' = lineno + 1
    /\ UNCHANGED pc
    /\ CuffFrame

\* line 1251: return results
CuffReturn ==
    /\ pc = "parsing"
    /\ lineno = Len(infile)
    /\ pc' = "parsed"
    /\ UNCHANGED <<lineno, results>>
    /\ CuffFrame

CuffNext == CuffSkipHeader \/ CuffParseLine \/ CuffReturn

CuffSpec == CuffInit /\ [][CuffNext]_vars

----------------------------------------------------------------------------
(* Expression.py: the result loops of deseqParseResults and runEdgeR.  A   *)
(* number of R is a record: NA, or a value (p-values in hundredths)        *)

NA == [na |-> TRUE, val |-> 0]

Num(n) == [na |-> FALSE, val |-> n]

\* R["is.na"] on one value, read as true or false by the if of lines 896
\* and 761
isna(x) == x.na

\* x <= y for a number x of R and a Python number y: false when x is NA
LessEq(x, y) == ~x.na /\ x.val <= y

PvalValues == {NA, Num(1)}

PadjValues == {NA, Num(5), Num(10)}

\* (baseMeanA, baseMeanB)
BaseMeans == {<<0, 0>>, <<0, 3>>, <<3, 3>>}

\* the rows of R['res'], by column name
DeseqRows ==
    {[id |-> "gene", baseMeanA |-> m[1], baseMeanB |-> m[2],
      foldChange |-> IF l = 0 THEN 1 ELSE 2, log2FoldChange |-> l,
      pval |-> p, padj |-> q] :
         m \in BaseMeans, l \in {0, 1}, p \in PvalValues, q \in PadjValues}

\* the rows of lrt$table with their row name and their entry of padj
EdgerRows ==
    [interval : {"gene"}, lfold : {0, 1, 2000}, logCPM : {4}, LR : {1},
     pvalue : PvalValues, padj : PadjValues]

\* counts.<name> += 1
Inc(c, name) == [c EXCEPT ![name] = @ + 1]

\* mutant: a row is significant only when padj is below fdr
SignifStrict(padj, f) == IF ~padj.na /\ padj.val < f THEN 1 ELSE 0

\* lines 876-877 and 883-884 (745-746 and 752-753): signif
Signif(padj, f) == IF LessEq(padj, f) THEN 1 ELSE 0

\* lines 876-890 (745-759): the counters of significance and of direction
CountSignif(c, signif, lfold) ==
    LET c1 == IF signif = 1
              THEN Inc(Inc(c, "significant"),
                       IF lfold > 0 THEN "significant_over" ELSE "significant_under")
              ELSE Inc(c, "insignificant")
    IN  Inc(c1, IF lfold > 0 THEN "all_over" ELSE "all_under")

\* lines 893-894: d._replace( foldChange = 0, log2FoldChange = 0 )
DeseqReplace(d) ==
    IF d.baseMeanA = 0 /\ d.baseMeanB = 0
    THEN [d EXCEPT !.foldChange = 0, !.log2FoldChange = 0]
    ELSE d

\* mutant: a defined p-value gives OK, a missing one FAIL
DeseqStatusDefinedOK(d) == IF isna(d.pval) THEN "FAIL" ELSE "OK"

\* lines 896-897
DeseqStatus(d) == IF isna(d.pval) THEN "OK" ELSE "FAIL"

\* lines 761-762
EdgerStatus(d) == IF isna(d.pvalue) THEN "OK" ELSE "FAIL"

\* lines 766-771: math.pow( 2.0, d.lfold ), 0 on OverflowError
EdgerFold(d) == IF d.lfold >= 1024 THEN 0 ELSE 2 ^ d.lfold

\* str(signif)
StrSignif(signif) == IF signif = 1 THEN "1" ELSE "0"

\* GeneExpressionResult._make( t ), t a tuple in the order of the fields
GeneExpressionResult(t) ==
    [test_id |-> t[1], treatment_name |-> t[2], treatment_mean |-> t[3],
     treatment_std |-> t[4], control_name |-> t[5], control_mean |-> t[6],
     control_std |-> t[7], pvalue |-> t[8], qvalue |-> t[9], l2fold |-> t[10],
     fold |-> t[11], significant |-> t[12], status |-> t[13]]

ExprInit ==
    /\ parser \in {"deseq", "edger"}
    /\ res \in UNION {[1..k -> IF parser = "deseq" THEN DeseqRows ELSE EdgerRows] :
                         k \in 0..MaxRows}
    /\ fdr \in {5, 10}
    /\ rowno = 0
    /\ counts = NoCounts
    /\ results = <<>>
    /\ pc = "rows"
    /\ v = <<>>
    /\ left = TRUE
    /\ human_ref_pysam = None
    /\ outcome = NoOutcome
    /\ frame = NoLocals
    /\ outcome2 = NoOutcome
    /\ fetched = <<>>
    /\ vs = <<>>
    /\ span = NoSpan
    /\ infile = <<>>
    /\ lineno = 0
    /\ min_fpkm = 1
    /\ calls = <<>>
    /\ frames = <<>>
    /\ PipeIdle

ExprFrame ==
    /\ UNCHANGED <<v, left, human_ref_pysam, outcome, frame, outcome2, fetched, vs, span,
                   infile, lineno, min_fpkm, parser, res, fdr>>
    /\ UNCHANGED concVars
    /\ UNCHANGED pipeVars

\* lines 872-917: one iteration of the loop of deseqParseResults
DeseqRow ==
    /\ pc = "rows"
    /\ parser = "deseq"
    /\ rowno < Len(res)
    /\ LET d == res[rowno + 1]
           signif == Signif(d.padj, fdr)
           d2 == DeseqReplace(d)
           status == DeseqStatus(d2)
           c1 == CountSignif(Inc(counts, "input"), signif, d.log2FoldChange)
       IN  /\ counts' = Inc(Inc(c1, status), "output")
           /\ results' = Append(results,
                  GeneExpressionResult(<<d2.id, "track2", d2.baseMeanA, 0, "track1",
                                         d2.baseMeanB, 0, d2.pval, d2.padj,
                                         d2.log2FoldChange, d2.foldChange,
                                         StrSignif(signif), status>>))
    /\ rowno' = rowno + 1
    /\ UNCHANGED pc
    /\ ExprFrame

\* lines 737-787: one iteration of the loop of runEdgeR
EdgerRow ==
    /\ pc = "rows"
    /\ parser = "edger"
    /\ rowno < Len(res)
    /\ LET d == res[rowno + 1]
           signif == Signif(d.padj, fdr)
           status == EdgerStatus(d)
           c1 == CountSignif(Inc(counts, "input"), signif, d.lfold)
       IN  /\ counts' = Inc(c1, status)
           /\ results' = Append(results,
                  GeneExpressionResult(<<d.interval, "group1", d.logCPM, 0, "group0",
                                         d.logCPM, 0, d.pvalue, d.padj, d.lfold,
                                         EdgerFold(d), StrSignif(signif), status>>))
    /\ rowno' = rowno + 1
    /\ UNCHANGED pc
    /\ ExprFrame

\* line 920: return results, counts
DeseqReturn ==
    /\ pc = "rows"
    /\ parser = "deseq"
    /\ rowno = Len(res)
    /\ pc' = "returned"
    /\ UNCHANGED <<rowno, counts, results>>
    /\ ExprFrame

\* lines 789-793: the loop is over and the results are written
EdgerReturn ==
    /\ pc = "rows"
    /\ parser = "edger"
    /\ rowno = Len(res)
    /\ pc' = "returned"
    /\ UNCHANGED <<rowno, counts, results>>
    /\ ExprFrame

ExprNext == DeseqRow \/ DeseqReturn \/ EdgerRow \/ EdgerReturn

ExprSpec == ExprInit /\ [][ExprNext]_vars

----------------------------------------------------------------------------
(* Calls of clean_variant and get_chrom_start_stop running in two threads,  *)
(* interleaved statement by statement and loop iteration by loop iteration *)

Threads == {1, 2}

\* mutant: b, e, ref_e and alt_e are module globals: one frame for all calls
FrameOfShared(t) == 1

\* the scan variables are locals: each call has a frame of its own
FrameOf(t) == t

\* what the (read-only) accessor answers in these runs
ConcResp == [raises |-> FALSE, base |-> <<"G">>]

ConcAlleles == {<<"A">>, <<"A", "A">>, <<"T", "A">>, <<"A", "T", "A">>}

ConcVariants ==
    {join(<<(<<"1">>), (<<"7">>), r, a>>) : r \in ConcAlleles, a \in ConcAlleles}

\* "1-x-A-T" and "1-7--A"
ConcBadVariants ==
    {<<"1", "-", "x", "-", "A", "-", "T">>, <<"1", "-", "7", "-", "-", "A">>}

\* "1-7-A-*"
ConcSentinel == <<"1", "-", "7", "-", "A", "-", "*">>

ConcCollections ==
    {<<>>, <<ExampleSpanA, ExampleSpanB>>, <<ExampleSpanB, ExampleSpanA>>,
     <<ExampleSpanB, <<"1">>>>, <<ExampleSpanA, <<"1", "-", "x", "-", "A">>>>}

NewCall(fn, arg, align_left, accessor, coll) ==
    [fn |-> fn, v |-> arg, left |-> align_left, acc |-> accessor, vs |-> coll,
     at |-> IF fn = "clean_variant" THEN "l3" ELSE "l41",
     f |-> <<>>, pos |-> 0, n |-> 0, it |-> 0,
     chrom |-> <<>>, arrays |-> <<>>, starts |-> <<>>, stops |-> <<>>,
     res |-> IF fn = "clean_variant" THEN NoOutcome ELSE NoSpan,
     mixed |-> FALSE]

ConcCalls ==
    {NewCall("clean_variant", x, l, None, <<>>) :
         x \in ConcVariants \cup ConcBadVariants, l \in BOOLEAN}
    \cup {NewCall("clean_variant", ConcSentinel, TRUE, a, <<>>) : a \in {None, Accessor}}
    \cup {NewCall("get_chrom_start_stop", <<>>, TRUE, None, c) : c \in ConcCollections}

ConcInit ==
    /\ calls \in [Threads -> ConcCalls]
    /\ frames = [t \in Threads |-> NoLocals]
    /\ pc = "threads"
    /\ v = <<>>
    /\ left = TRUE
    /\ human_ref_pysam = None
    /\ outcome = NoOutcome
    /\ frame = NoLocals
    /\ outcome2 = NoOutcome
    /\ fetched = <<>>
    /\ vs = <<>>
    /\ span = NoSpan
    /\ infile = <<>>
    /\ lineno = 0
    /\ min_fpkm = 1
    /\ results = <<>>
    /\ PipeIdle
    /\ ExprIdle

ConcFrame ==
    /\ UNCHANGED <<v, left, human_ref_pysam, pc, outcome, frame, outcome2, fetched,
                   vs, span>>
    /\ UNCHANGED cuffVars
    /\ UNCHANGED pipeVars
    /\ UNCHANGED exprVars

\* a call that has started and not ended
Running(u) == calls[u].at \notin {"l3", "l41", "done"}

\* thread t moves to the state c of its call; mixed records that it did so
\* while another call was under way
Advance(t, c) ==
    calls' = [calls EXCEPT ![t] =
                 [c EXCEPT !.mixed = @ \/ \E u \in Threads \ {t} : Running(u)]]

Finish(c, r) == [c EXCEPT !.at = "done", !.res = r]

\* lines 1-4: entry (fresh locals), split, unpack, int
CvParse(t) ==
    LET c == calls[t]
        fields == split(c.v)
    IN  /\ c.at = "l3"
        /\ frames' = [frames EXCEPT ![FrameOf(t)] = NoLocals]
        /\ IF ~UnpackOk(fields)
           THEN Advance(t, Finish(c, Outcome(Raise("ValueError: unpack", NoLocals, <<>>))))
           ELSE IF ~IntOk(fields[2])
           THEN Advance(t, Finish(c, Outcome(Raise("ValueError: int", NoLocals, <<>>))))
           ELSE Advance(t, [c EXCEPT !.at = "l5", !.f = fields, !.pos = int(fields[2])])
        /\ ConcFrame

\* lines 5-11: the sentinel test and, for a sentinel, the whole sentinel path
CvSentinel(t) ==
    LET c == calls[t]
    IN  /\ c.at = "l5"
        /\ IF c.f[4] \in Sentinels
           THEN Advance(t, Finish(c, Outcome(SentinelPath(c.f[1], c.pos, c.f[3], c.acc,
                                                         ConcResp))))
           ELSE Advance(t, [c EXCEPT !.at = "l12"])
        /\ UNCHANGED frames
        /\ ConcFrame

\* lines 12-16: ran, and the branch on left
CvRan(t) ==
    LET c == calls[t]
    IN  /\ c.at = "l12"
        /\ Advance(t, [c EXCEPT !.n = RanLen(c.f[3], c.f[4]), !.it = 0,
                                  !.at = IF c.left THEN "end" ELSE "start"])
        /\ UNCHANGED frames
        /\ ConcFrame

\* where a call goes when its end loop is over
AfterEnd(c) == [c EXCEPT !.it = 0, !.at = IF c.left THEN "start" ELSE "l33"]

\* where a call goes when its start loop is over
AfterStart(c) == [c EXCEPT !.it = 0, !.at = IF c.left THEN "l33" ELSE "end"]

\* lines 17-20 / 27-31: one iteration of the end loop (guarded in the right
\* branch), or its exhaustion
CvEndIter(t) ==
    LET c == calls[t]
        L1 == BindEnd(c.f[3], c.f[4], c.it, frames[FrameOf(t)])
    IN  /\ c.at = "end"
        /\ IF c.it >= c.n
           THEN Advance(t, AfterEnd(c)) /\ UNCHANGED frames
           ELSE /\ frames' = [frames EXCEPT ![FrameOf(t)] = L1]
                /\ IF \/ Idx(c.f[3], L1.ref_e) # Idx(c.f[4], L1.alt_e)
                      \/ (~c.left /\ Guard(c.f[3], c.f[4], L1))
                   THEN Advance(t, AfterEnd(c))
                   ELSE Advance(t, [c EXCEPT !.it = @ + 1])
        /\ ConcFrame

\* lines 21-23 / 25-26: one iteration of the start loop (guarded in the left
\* branch), or its exhaustion
CvStartIter(t) ==
    LET c == calls[t]
        L1 == BindStart(c.it, frames[FrameOf(t)])
    IN  /\ c.at = "start"
        /\ IF c.it >= c.n
           THEN Advance(t, AfterStart(c)) /\ UNCHANGED frames
           ELSE /\ frames' = [frames EXCEPT ![FrameOf(t)] = L1]
                /\ IF \/ Idx(c.f[3], c.it) # Idx(c.f[4], c.it)
                      \/ (c.left /\ Guard(c.f[3], c.f[4], L1))
                   THEN Advance(t, AfterStart(c))
                   ELSE Advance(t, [c EXCEPT !.it = @ + 1])
        /\ ConcFrame

\* line 33
CvReturn(t) ==
    LET c == calls[t]
        L == frames[FrameOf(t)]
    IN  /\ c.at = "l33"
        /\ IF {"b", "ref_e", "alt_e"} \subseteq L.bound
           THEN Advance(t, Finish(c, Outcome(Return(
                    TrimReturn(c.f[1], c.pos, c.f[3], c.f[4], L), L, <<>>))))
           ELSE Advance(t, Finish(c, Outcome(Raise("UnboundLocalError", L, <<>>))))
        /\ UNCHANGED frames
        /\ ConcFrame

\* lines 41-42: chrom and vs_arrays
SpSplit(t) ==
    LET c == calls[t]
    IN  /\ c.at = "l41"
        /\ IF Len(c.vs) = 0
           THEN Advance(t, Finish(c, SpanRaise("IndexError")))
           ELSE Advance(t, [c EXCEPT !.at = "l43", !.chrom = SpanChrom(c.vs),
                                     !.arrays = SplitAll(c.vs)])
        /\ UNCHANGED frames
        /\ ConcFrame

\* line 43: starts
SpStarts(t) ==
    LET c == calls[t]
    IN  /\ c.at = "l43"
        /\ IF StartsError(c.arrays) # ""
           THEN Advance(t, Finish(c, SpanRaise(StartsError(c.arrays))))
           ELSE Advance(t, [c EXCEPT !.at = "l44", !.starts = SpanStarts(c.arrays)])
        /\ UNCHANGED frames
        /\ ConcFrame

\* line 44: stops
SpStops(t) ==
    LET c == calls[t]
    IN  /\ c.at = "l44"
        /\ IF StopsError(c.arrays) # ""
           THEN Advance(t, Finish(c, SpanRaise(StopsError(c.arrays))))
           ELSE Advance(t, [c EXCEPT !.at = "l45",
                                     !.stops = SpanStops(c.starts, c.arrays)])
        /\ UNCHANGED frames
        /\ ConcFrame

\* lines 45-47: start, stop and the return
SpReturn(t) ==
    LET c == calls[t]
    IN  /\ c.at = "l45"
        /\ Advance(t, Finish(c, SpanReturn(c.chrom, SpanStart(c.starts),
                                           SpanStop(c.stops))))
        /\ UNCHANGED frames
        /\ ConcFrame

ConcNext ==
    \E t \in Threads :
        \/ CvParse(t)
        \/ CvSentinel(t)
        \/ CvRan(t)
        \/ CvEndIter(t)
        \/ CvStartIter(t)
        \/ CvReturn(t)
        \/ SpSplit(t)
        \/ SpStarts(t)
        \/ SpStops(t)
        \/ SpReturn(t)

ConcSpec == ConcInit /\ [][ConcNext]_vars

----------------------------------------------------------------------------
(* Vocabulary of the properties *)

InFields == split(v)

OutFields == split(outcome.value)

FourFields == Len(InFields) = 4

\* a base-10 integer text: an optional sign and at least one digit
IsIntegerText(s) ==
    LET ds == IF Len(s) > 0 /\ s[1] \in {"+", "-"} THEN SubSeq(s, 2, Len(s)) ELSE s
    IN  Len(ds) > 0 /\ \A i \in 1..Len(ds) : ds[i] \in {"0", "1", "2", "3", "4", "5", "6", "7", "8", "9"}

Literal(s) == s # <<>> /\ s \notin {<<"*">>, <<"-">>}

\* four fields, an integer position, non-empty literal reference and alternate
ValidLiteral ==
    /\ FourFields
    /\ IsIntegerText(InFields[2])
    /\ Literal(InFields[3])
    /\ Literal(InFields[4])

\* four fields, an integer position and the alternate '*'
StarAlt == FourFields /\ IsIntegerText(InFields[2]) /\ InFields[4] = <<"*">>

\* <chrom>-<pos>-<ref>-- : the alternate written as '-'
DashAlt ==
    /\ Len(v) >= 2
    /\ SubSeq(v, Len(v) - 1, Len(v)) = <<"-", "-">>
    /\ Len(split(SubSeq(v, 1, Len(v) - 2))) = 3
    /\ IsIntegerText(InFields[2])
    /\ Literal(InFields[3])

ParseFailures == {"ValueError: unpack", "ValueError: int"}

MissingReference == "ValueError: need human ref pysam"

Called == pc # "ready"

----------------------------------------------------------------------------
(* Properties of clean_variant *)

\* C1: on the trimming path (four fields, integer position, non-empty literal
\* reference and alternate) the call returns, and calling it again on what it
\* returned, with the same left, returns the same string.
C1_Idempotent ==
    /\ (Called /\ ValidLiteral) => outcome.kind = "return"
    /\ (pc = "recalled" /\ ValidLiteral) => outcome2 = outcome

\* a variant that the first call really trimmed, normalised a second time
C1_Witness ==
    /\ pc = "recalled"
    /\ ValidLiteral
    /\ outcome.value # v
    /\ Len(OutFields[3]) < Len(InFields[3])

\* C2: on the trimming path, for either value of left, the returned reference
\* and alternate each hold at least one character, and neither end index is
\* below the start index b.
C2_NonEmpty ==
    (Called /\ ValidLiteral) =>
        /\ outcome.kind = "return"
        /\ Len(OutFields) = 4
        /\ Len(OutFields[3]) >= 1
        /\ Len(OutFields[4]) >= 1
        /\ frame.ref_e >= frame.b
        /\ frame.alt_e >= frame.b

\* the length-1 guard stopped a scan: the alleles still share their only
\* remaining common character after a prefix was removed
C2_Witness ==
    /\ pc = "called"
    /\ ValidLiteral
    /\ ~left
    /\ frame.b > 0
    /\ Len(OutFields[4]) = 1
    /\ Len(OutFields[3]) = 2
    /\ OutFields[3][2] = OutFields[4][1]

\* C3: on the trimming path the returned position is the input position plus
\* b, the returned reference is reference[b..ref_e], and 0 <= b <=
\* min(len(reference), len(alternate)) - 1.
C3_Position ==
    (Called /\ ValidLiteral) =>
        /\ outcome.kind = "return"
        /\ Len(OutFields) = 4
        /\ IsIntegerText(OutFields[2])
        /\ int(OutFields[2]) = int(InFields[2]) + frame.b
        /\ frame.b >= 0
        /\ frame.b <= Min(Len(InFields[3]), Len(InFields[4])) - 1
        /\ OutFields[3] = SubSeq(InFields[3], frame.b + 1, frame.ref_e + 1)
        /\ OutFields[3][1] = InFields[3][frame.b + 1]
        /\ int(OutFields[2]) >= int(InFields[2])

\* two leading characters were removed
C3_Witness ==
    /\ pc = "called"
    /\ ValidLiteral
    /\ frame.b = 2
    /\ int(OutFields[2]) = int(InFields[2]) + 2

\* C4: on the trimming path, unless one of the returned alleles has length 1,
\* the returned alleles differ in their first character when left is false
\* and in their last character when left is true.
C4_Minimal ==
    (Called /\ ValidLiteral) =>
        /\ outcome.kind = "return"
        /\ LET r == OutFields[3]
               a == OutFields[4]
           IN  \/ Len(r) = 1
               \/ Len(a) = 1
               \/ IF left THEN r[Len(r)] # a[Len(a)] ELSE r[1] # a[1]

\* both returned alleles keep two or more characters after a trim
C4_Witness ==
    /\ pc = "called"
    /\ ValidLiteral
    /\ outcome.value # v
    /\ Len(OutFields[3]) >= 2
    /\ Len(OutFields[4]) >= 2

\* "1-101-TG-TC"
C5_Stated == <<"1", "-", "1", "0", "1", "-", "T", "G", "-", "T", "C">>

\* "1-102-G-C"
C5_Computed == <<"1", "-", "1", "0", "2", "-", "G", "-", "C">>

\* C5 as stated: clean_variant("1-100-ATG-ATC", left=True) returns
\* "1-101-TG-TC".
C5_Original ==
    (Called /\ v = ExampleTrim /\ left) =>
        (outcome.kind = "return" /\ outcome.value = C5_Stated)

\* C5 amended: clean_variant("1-100-ATG-ATC", left=True) returns "1-102-G-C":
\* the start scan passes the matching A and T, whose open slices have lengths
\* 3 and 2, and stops at the mismatch G/C.
C5_Amended ==
    (Called /\ v = ExampleTrim /\ left) =>
        (outcome.kind = "return" /\ outcome.value = C5_Computed)

C5_Witness == pc = "called" /\ v = ExampleTrim /\ left /\ frame.b = 2

\* "1-99-GA-G"
C6_Expected == <<"1", "-", "9", "9", "-", "G", "A", "-", "G">>

\* C6: with alternate '*' and an accessor, fetch is called with (chrom,
\* pos-2, pos-1) and, when it answers base, the call returns chrom, pos-1,
\* base + reference and base joined by '-', whatever left is; for
\* "1-100-A-*" and base G that is "1-99-GA-G".
C6_SentinelExpansion ==
    (Called /\ StarAlt /\ human_ref_pysam = Accessor) =>
        /\ Len(fetched) >= 1
        /\ fetched[1].chrom = InFields[1]
        /\ fetched[1].start = int(InFields[2]) - 2
        /\ fetched[1].end = int(InFields[2]) - 1
        /\ ~fetched[1].resp.raises =>
              /\ outcome.kind = "return"
              /\ outcome.value =
                    join(<<InFields[1], str(int(InFields[2]) - 1),
                           fetched[1].resp.base \o InFields[3], fetched[1].resp.base>>)
              /\ (v = ExampleSentinel /\ fetched[1].resp.base = <<"G">>)
                    => outcome.value = C6_Expected

C6_Witness ==
    /\ pc = "called"
    /\ v = ExampleSentinel
    /\ human_ref_pysam = Accessor
    /\ Len(fetched) = 1
    /\ fetched[1].resp = [raises |-> FALSE, base |-> <<"G">>]
    /\ outcome.value = C6_Expected

\* C7 as stated: an input whose alternate is written '-' fails with the
\* missing-reference error when no accessor is given, and is expanded like
\* '*' when one is.
C7_DashSentinel ==
    (Called /\ DashAlt) =>
        IF human_ref_pysam = None
        THEN outcome.kind = "raise" /\ outcome.exc = MissingReference
        ELSE /\ Len(fetched) >= 1
             /\ ~fetched[1].resp.raises =>
                   /\ outcome.kind = "return"
                   /\ outcome.value =
                         join(<<InFields[1], str(int(InFields[2]) - 1),
                                fetched[1].resp.base \o InFields[3],
                                fetched[1].resp.base>>)

\* C8: with alternate '*' and no accessor the call raises the
\* missing-reference error, returns nothing and fetches nothing, for every
\* chromosome, integer position, reference and value of left.
C8_MissingReference ==
    (Called /\ StarAlt /\ human_ref_pysam = None) =>
        /\ outcome.kind = "raise"
        /\ outcome.exc = MissingReference
        /\ outcome.value = <<>>
        /\ fetched = <<>>

C8_Witness ==
    /\ pc = "called"
    /\ StarAlt
    /\ human_ref_pysam = None
    /\ outcome.kind = "raise"

\* C9: an input that does not split into four fields, or whose position is
\* not an integer, fails with a parse failure, with or without an accessor
\* and also when the alternate is a sentinel; nothing is fetched or returned.
C9_ParseFirst ==
    (Called /\ (~FourFields \/ ~IsIntegerText(InFields[2]))) =>
        /\ outcome.kind = "raise"
        /\ outcome.exc \in ParseFailures
        /\ outcome.value = <<>>
        /\ fetched = <<>>

\* a non-integer position together with a sentinel alternate and no accessor
C9_Witness ==
    /\ pc = "called"
    /\ FourFields
    /\ ~IsIntegerText(InFields[2])
    /\ InFields[4] = <<"*">>
    /\ human_ref_pysam = None
    /\ outcome.exc = "ValueError: int"

\* C10 as stated: every failure is a parse failure, the missing-reference
\* error or an accessor error, and every input with four fields, an integer
\* position and a non-sentinel alternate returns a string.
C10_Taxonomy ==
    Called =>
        /\ outcome.kind = "raise" =>
              outcome.exc \in ParseFailures \cup {MissingReference, "AccessorError"}
        /\ (FourFields /\ IsIntegerText(InFields[2]) /\ InFields[4] \notin {<<"*">>, <<"-">>})
              => outcome.kind = "return"

\* four fields, an integer position and an alternate that is no sentinel
TrimAlt ==
    /\ FourFields
    /\ IsIntegerText(InFields[2])
    /\ InFields[4] \notin {<<"*">>, <<"-">>}

\* C11: on the trimming path nothing is fetched and the result is the one of
\* the call without an accessor and with an accessor answering anything; on
\* the sentinel path with an accessor exactly one fetch is made, with
\* (chrom, pos-2, pos-1).
C11_FetchEffect ==
    /\ (Called /\ TrimAlt) =>
          /\ fetched = <<>>
          /\ \A a \in {None, Accessor} : \A resp \in FetchResponses :
                outcome = Outcome(clean_variant(v, left, a, resp))
    /\ (Called /\ StarAlt /\ human_ref_pysam = Accessor) =>
          /\ Len(fetched) = 1
          /\ fetched[1].chrom = InFields[1]
          /\ fetched[1].start = int(InFields[2]) - 2
          /\ fetched[1].end = int(InFields[2]) - 1

\* a trimming call that was handed an accessor and did not use it
C11_Witness ==
    /\ pc = "called"
    /\ ValidLiteral
    /\ human_ref_pysam = Accessor
    /\ outcome.kind = "return"
    /\ fetched = <<>>

\* C12: when the fetch of the sentinel path fails, the call fails with the
\* accessor's error, returns no string, and fetch was called once only.
C12_AccessorError ==
    (Called /\ StarAlt /\ human_ref_pysam = Accessor /\ Len(fetched) >= 1
            /\ fetched[1].resp.raises) =>
        /\ outcome.kind = "raise"
        /\ outcome.exc = "AccessorError"
        /\ outcome.value = <<>>
        /\ Len(fetched) = 1

C12_Witness ==
    /\ pc = "called"
    /\ StarAlt
    /\ human_ref_pysam = Accessor
    /\ Len(fetched) = 1
    /\ fetched[1].resp.raises
    /\ outcome.exc = "AccessorError"

\* the position field of a returned variant string
PosOf(s) == int(split(s)[2])

\* the same call with the other value of left (no fetch is made on this path)
OtherDirection == clean_variant(v, ~left, None, [raises |-> TRUE, base |-> <<>>])

\* C19: on the trimming path the position returned with left = True is not
\* greater than the position returned with left = False.
C19_LeftNotRight ==
    (Called /\ ValidLiteral) =>
        /\ outcome.kind = "return"
        /\ OtherDirection.kind = "return"
        /\ IF left THEN PosOf(outcome.value) <= PosOf(OtherDirection.value)
                   ELSE PosOf(OtherDirection.value) <= PosOf(outcome.value)

\* left alignment gives a strictly lower position than right alignment
C19_Witness ==
    /\ pc = "called"
    /\ ValidLiteral
    /\ left
    /\ PosOf(outcome.value) < PosOf(OtherDirection.value)

\* C20: on the trimming path the input alleles are P + returned reference + S
\* and P + returned alternate + S, with the same removed prefix P (of length
\* b) and the same removed suffix S, which do not overlap; the difference of
\* the allele lengths is kept.
C20_Decomposition ==
    (Called /\ ValidLiteral) =>
        /\ outcome.kind = "return"
        /\ LET ref == InFields[3]
               alt == InFields[4]
               ro == OutFields[3]
               ao == OutFields[4]
               b == PosOf(outcome.value) - int(InFields[2])
               sl == Len(ref) - b - Len(ro)
               P == SubSeq(ref, 1, b)
               S == SubSeq(ref, Len(ref) - sl + 1, Len(ref))
           IN  /\ b >= 0
               /\ sl >= 0
               /\ ref = P \o ro \o S
               /\ alt = P \o ao \o S
               /\ b + sl < Len(ref)
               /\ b + sl < Len(alt)
               /\ Len(ro) - Len(ao) = Len(ref) - Len(alt)

\* a prefix and a suffix were both removed
C20_Witness ==
    /\ pc = "called"
    /\ ValidLiteral
    /\ frame.b > 0
    /\ frame.e > 0
    /\ Len(OutFields[3]) = Len(InFields[3]) - frame.b - frame.e

Least(S) == CHOOSE x \in S : \A y \in S : x <= y

Greatest(S) == CHOOSE x \in S : \A y \in S : x >= y

\* the indices below n at which the alleles differ, counted from the start
Mismatches(ref, alt, n) == {i \in 0..(n - 1) : Idx(ref, i) # Idx(alt, i)}

\* the length of the longest common suffix of ref and alt
CommonSuffix(ref, alt) ==
    Greatest({k \in 0..Min(Len(ref), Len(alt)) :
                 \A j \in 0..(k - 1) : ref[Len(ref) - j] = alt[Len(alt) - j]})

\* C21: with left = False on the trimming path, the number of leading
\* characters removed is the first index below n = min(len(ref), len(alt))
\* at which the alleles differ, or n - 1 when they agree on their first n
\* characters; the end scan then ends on a break (a mismatch or the length-1
\* guard) with both slices from b still holding a character.
C21_RightStartFirst ==
    (Called /\ ValidLiteral /\ ~left) =>
        LET ref == InFields[3]
            alt == InFields[4]
            n == Min(Len(ref), Len(alt))
            mm == Mismatches(ref, alt, n)
        IN  /\ outcome.kind = "return"
            /\ n >= 1
            /\ frame.b = IF mm = {} THEN n - 1 ELSE Least(mm)
            /\ PosOf(outcome.value) = int(InFields[2]) + frame.b
            /\ Len(Slice(ref, frame.b, frame.ref_e + 1)) >= 1
            /\ Len(Slice(alt, frame.b, frame.alt_e + 1)) >= 1
            /\ \/ Idx(ref, frame.ref_e) # Idx(alt, frame.alt_e)
               \/ Len(Slice(ref, frame.b, frame.ref_e + 1)) = 1
               \/ Len(Slice(alt, frame.b, frame.alt_e + 1)) = 1

\* the alleles agree on their first n characters, n - 1 of them were removed,
\* and the guard ended the end scan on a matching character
C21_Witness ==
    /\ pc = "called"
    /\ ValidLiteral
    /\ ~left
    /\ Min(Len(InFields[3]), Len(InFields[4])) >= 2
    /\ Mismatches(InFields[3], InFields[4], Min(Len(InFields[3]), Len(InFields[4]))) = {}
    /\ frame.b = Min(Len(InFields[3]), Len(InFields[4])) - 1
    /\ Idx(InFields[3], frame.ref_e) = Idx(InFields[4], frame.alt_e)

\* C22: with left = True on the trimming path, the number of trailing
\* characters removed from each allele is min(length of the longest common
\* suffix, n - 1), and b is the first index at which the characters differ or
\* at which a slice still open (up to ref_e, alt_e) has length 1.
C22_LeftEndFirst ==
    (Called /\ ValidLiteral /\ left) =>
        LET ref == InFields[3]
            alt == InFields[4]
            n == Min(Len(ref), Len(alt))
            T == Min(CommonSuffix(ref, alt), n - 1)
            stops == {i \in 0..(n - 1) :
                         \/ Idx(ref, i) # Idx(alt, i)
                         \/ Len(ref) - T - i = 1
                         \/ Len(alt) - T - i = 1}
        IN  /\ outcome.kind = "return"
            /\ n >= 1
            /\ Len(ref) - 1 - frame.ref_e = T
            /\ Len(alt) - 1 - frame.alt_e = T
            /\ stops # {}
            /\ frame.b = Least(stops)
            /\ Len(OutFields[3]) = Len(ref) - T - frame.b
            /\ Len(OutFields[4]) = Len(alt) - T - frame.b

\* the whole shorter allele is a suffix of the longer one: n - 1 characters
\* are removed, fewer than the common suffix holds
C22_Witness ==
    /\ pc = "called"
    /\ ValidLiteral
    /\ left
    /\ Min(Len(InFields[3]), Len(InFields[4])) >= 2
    /\ CommonSuffix(InFields[3], InFields[4]) = Min(Len(InFields[3]), Len(InFields[4]))
    /\ Len(InFields[3]) - 1 - frame.ref_e = Min(Len(InFields[3]), Len(InFields[4])) - 1

\* C23: on the trimming path, for either value of left, when both returned
\* alleles hold two characters or more their first characters differ and
\* their last characters differ.
C23_BothEnds ==
    (Called /\ ValidLiteral) =>
        /\ outcome.kind = "return"
        /\ LET r == OutFields[3]
               a == OutFields[4]
           IN  (Len(r) >= 2 /\ Len(a) >= 2) =>
                   (r[1] # a[1] /\ r[Len(r)] # a[Len(a)])

\* a left-aligned call removed a suffix and left two characters or more in
\* both alleles
C23_Witness ==
    /\ pc = "called"
    /\ ValidLiteral
    /\ left
    /\ frame.e > 0
    /\ Len(OutFields[3]) >= 2
    /\ Len(OutFields[4]) >= 2
    /\ OutFields[3][1] # OutFields[4][1]

\* C24: on the trimming path, when the reference or the alternate of the
\* input is one character long, the call returns the same chromosome, the
\* same position value and the same reference and alternate, for either
\* value of left.
C24_Anchored ==
    (Called /\ ValidLiteral /\ (Len(InFields[3]) = 1 \/ Len(InFields[4]) = 1)) =>
        /\ outcome.kind = "return"
        /\ Len(OutFields) = 4
        /\ OutFields[1] = InFields[1]
        /\ int(OutFields[2]) = int(InFields[2])
        /\ OutFields[3] = InFields[3]
        /\ OutFields[4] = InFields[4]
        /\ OtherDirection.kind = "return"
        /\ split(OtherDirection.value) = OutFields

\* a one-base reference that is also the first and the last base of a longer
\* alternate
C24_Witness ==
    /\ pc = "called"
    /\ ValidLiteral
    /\ Len(InFields[3]) = 1
    /\ Len(InFields[4]) >= 2
    /\ InFields[4][1] = InFields[3][1]
    /\ InFields[4][Len(InFields[4])] = InFields[3][1]
    /\ OutFields[4] = InFields[4]

\* C25: on the sentinel path a fetch that answers any string, of any length,
\* gives a returned string whose last field is the fetched string and whose
\* field before it is the fetched string followed by the reference; the
\* returned alternate is one character long exactly when the fetched string
\* is.
C25_Unvalidated ==
    (Called /\ StarAlt /\ human_ref_pysam = Accessor /\ Len(fetched) >= 1
            /\ ~fetched[1].resp.raises) =>
        /\ outcome.kind = "return"
        /\ Len(OutFields) >= 4
        /\ OutFields[Len(OutFields)] = fetched[1].resp.base
        /\ OutFields[Len(OutFields) - 1] = fetched[1].resp.base \o InFields[3]
        /\ Len(OutFields[Len(OutFields)]) = 1 <=> Len(fetched[1].resp.base) = 1

\* a fetch that answered two characters was returned as the alternate
C25_Witness ==
    /\ pc = "called"
    /\ StarAlt
    /\ human_ref_pysam = Accessor
    /\ Len(fetched) = 1
    /\ Len(fetched[1].resp.base) = 2
    /\ outcome.kind = "return"
    /\ OutFields[Len(OutFields)] = fetched[1].resp.base

----------------------------------------------------------------------------
(* Properties of get_chrom_start_stop *)

Spanned == pc = "spanned"

EntryFields(i) == split(vs[i])

\* a variant string: four fields and an integer position
WellFormedEntry(i) == Len(EntryFields(i)) = 4 /\ IsIntegerText(EntryFields(i)[2])

\* an entry get_chrom_start_stop can read: three fields or more and an
\* integer position
ReadableEntry(i) == Len(EntryFields(i)) >= 3 /\ IsIntegerText(EntryFields(i)[2])

EntryPos(i) == int(EntryFields(i)[2])

EntryEnd(i) == EntryPos(i) + Len(EntryFields(i)[3])

\* C13: for a non-empty collection of well-formed variant strings the result
\* is (chromosome of the first entry, least position - 1, greatest
\* position + len(reference), + 1); ["1-100-A-T","1-105-GG-G"] gives
\* ("1", 99, 108).
C13_Span ==
    (Spanned /\ Len(vs) >= 1 /\ \A i \in 1..Len(vs) : WellFormedEntry(i)) =>
        /\ span.kind = "return"
        /\ span.chrom = EntryFields(1)[1]
        /\ span.start = Least({EntryPos(i) : i \in 1..Len(vs)}) - 1
        /\ span.stop = Greatest({EntryEnd(i) : i \in 1..Len(vs)}) + 1
        /\ vs = <<ExampleSpanA, ExampleSpanB>> =>
              span = SpanReturn(<<"1">>, 99, 108)

C13_Witness ==
    /\ Spanned
    /\ vs = <<ExampleSpanA, ExampleSpanB>>
    /\ span.kind = "return"
    /\ span.stop = 108

\* C14: in a returned span, start < position_i and position_i +
\* len(reference_i) < stop for every entry, start + 1 is the position of some
\* entry and stop - 1 is position_j + len(reference_j) of some entry.
C14_Padding ==
    (Spanned /\ span.kind = "return") =>
        /\ \A i \in 1..Len(vs) : span.start < EntryPos(i) /\ EntryEnd(i) < span.stop
        /\ span.start < span.stop
        /\ \E i \in 1..Len(vs) : span.start + 1 = EntryPos(i)
        /\ \E j \in 1..Len(vs) : span.stop - 1 = EntryEnd(j)

\* the tight bounds come from two different entries, the later one first
C14_Witness ==
    /\ Spanned
    /\ span.kind = "return"
    /\ Len(vs) = 2
    /\ EntryPos(2) < EntryPos(1)
    /\ span.start + 1 = EntryPos(2)
    /\ span.stop - 1 = EntryEnd(1)

\* C15: a collection whose entries name different chromosomes still gives a
\* span: the chromosome of the first entry, and start and stop over the
\* positions of all entries.
C15_NoChromCheck ==
    (/\ Spanned
     /\ Len(vs) >= 1
     /\ \A i \in 1..Len(vs) : ReadableEntry(i)
     /\ \E i, j \in 1..Len(vs) : EntryFields(i)[1] # EntryFields(j)[1]) =>
        /\ span.kind = "return"
        /\ span.chrom = EntryFields(1)[1]
        /\ span.start = Least({EntryPos(i) : i \in 1..Len(vs)}) - 1
        /\ span.stop = Greatest({EntryEnd(i) : i \in 1..Len(vs)}) + 1

\* the start comes from an entry on another chromosome than the one returned
C15_Witness ==
    /\ Spanned
    /\ span.kind = "return"
    /\ Len(vs) = 2
    /\ EntryFields(1)[1] # EntryFields(2)[1]
    /\ EntryPos(2) < EntryPos(1)
    /\ span.start = EntryPos(2) - 1
    /\ span.chrom = EntryFields(1)[1]

\* C16: when any entry, at any index, has fewer than three fields or a
\* position that is not an integer, the call raises (the failure of int or
\* of the indexing) and returns no span.
C16_NoRecovery ==
    (Spanned /\ \E i \in 1..Len(vs) : ~ReadableEntry(i)) =>
        /\ span.kind = "raise"
        /\ span.exc \in {"ValueError: int", "IndexError"}
        /\ span.chrom = <<>>

\* the malformed entry is the second one, after a well-formed first
C16_Witness ==
    /\ Spanned
    /\ Len(vs) = 2
    /\ WellFormedEntry(1)
    /\ ~ReadableEntry(2)
    /\ span.kind = "raise"

\* entry i cut after its third field
FirstThree(i) == join(<<EntryFields(i)[1], EntryFields(i)[2], EntryFields(i)[3]>>)

\* C27: a collection whose entries all have three fields or more and an
\* integer position gives a span, whether an entry has three, four or five
\* fields; the result is the one of the collection whose entries are cut
\* after their third field, so collections that agree on the first three
\* fields of every entry have the same result; an empty collection raises
\* and gives no span.
C27_FirstThreeFields ==
    Spanned =>
        /\ (Len(vs) >= 1 /\ \A i \in 1..Len(vs) : ReadableEntry(i))
              => span.kind = "return"
        /\ (\A i \in 1..Len(vs) : Len(EntryFields(i)) >= 3) =>
              get_chrom_start_stop([i \in 1..Len(vs) |-> FirstThree(i)]) = span
        /\ Len(vs) = 0 =>
              (span.kind = "raise" /\ span.exc = "IndexError" /\ span.chrom = <<>>)

\* a span over an entry of five fields (alternate '-') and one of three
C27_Witness ==
    /\ Spanned
    /\ Len(vs) = 2
    /\ Len(EntryFields(1)) = 5
    /\ Len(EntryFields(2)) = 3
    /\ span.kind = "return"
    /\ span.stop = EntryEnd(1) + 1
    /\ FirstThree(1) # vs[1]

----------------------------------------------------------------------------
(* Properties of get_chrom_start_stop after clean_variant *)

\* an entry of the trimming path
LiteralEntry(i) ==
    WellFormedEntry(i) /\ Literal(EntryFields(i)[3]) /\ Literal(EntryFields(i)[4])

\* an entry of the sentinel path
StarEntry(i) == WellFormedEntry(i) /\ EntryFields(i)[4] = <<"*">>

AllLiteral == Len(vs) >= 1 /\ \A i \in 1..Len(vs) : LiteralEntry(i)

\* for a non-empty collection of trimming-path entries, every entry is
\* cleaned and the span of the cleaned collection lies within the span of
\* the given one, on the same chromosome
SpanNotWidened ==
    /\ (pc \in {"cleaned", "respanned"} /\ AllLiteral) =>
          (cleaned.kind = "return" /\ Len(cleaned.value) = Len(vs))
    /\ (pc = "respanned" /\ AllLiteral) =>
          /\ span.kind = "return"
          /\ cleaned_span.kind = "return"
          /\ cleaned_span.chrom = span.chrom
          /\ cleaned_span.start >= span.start
          /\ cleaned_span.stop <= span.stop

\* C26 as stated: cleaning the entries of a non-empty collection of
\* trimming-path entries never widens its span, and the span of a single
\* sentinel-path entry, once cleaned, starts one lower and stops where it did.
C26_Original ==
    /\ SpanNotWidened
    /\ (pc = "respanned" /\ Len(vs) = 1 /\ StarEntry(1)) =>
          /\ span.kind = "return"
          /\ cleaned_span.kind = "return"
          /\ cleaned_span.chrom = span.chrom
          /\ cleaned_span.start = span.start - 1
          /\ cleaned_span.stop = span.stop

\* C26 amended: cleaning the entries of a non-empty collection of
\* trimming-path entries never widens its span; for a single sentinel-path
\* entry at position 1 or more whose fetch answered k characters, the span of
\* the cleaned entry starts one lower and stops k - 1 higher (where it did
\* when k = 1); at position 0 the cleaned entry carries position -1, which
\* get_chrom_start_stop cannot read, and no span is returned.
C26_Amended ==
    /\ SpanNotWidened
    /\ (pc = "respanned" /\ Len(vs) = 1 /\ StarEntry(1)) =>
          /\ span.kind = "return"
          /\ Len(fetched) = 1
          /\ IF EntryPos(1) >= 1
             THEN /\ cleaned_span.kind = "return"
                  /\ cleaned_span.chrom = span.chrom
                  /\ cleaned_span.start = span.start - 1
                  /\ cleaned_span.stop = span.stop + Len(fetched[1].resp.base) - 1
             ELSE /\ cleaned_span.kind = "raise"
                  /\ cleaned_span.exc = "ValueError: int"

\* two right-aligned entries, one losing a prefix and one a suffix: the span
\* of the cleaned collection is narrower at both ends
C26_Witness ==
    /\ pc = "respanned"
    /\ Len(vs) = 2
    /\ AllLiteral
    /\ cleaned_span.kind = "return"
    /\ cleaned_span.start > span.start
    /\ cleaned_span.stop < span.stop

----------------------------------------------------------------------------
(* Properties of parseCuffdiff *)

\* the data lines of infile, in order: one result row is made for each
CuffData == SelectSeq(infile, LAMBDA l : ~l.header)

BelowThreshold(d) == NatVal(d.value_1) < min_fpkm \/ NatVal(d.value_2) < min_fpkm

----------------------------------------------------------------------------
(* Properties of interleaved calls *)

\* what the call of thread t returns or raises when it runs alone
Alone(t) ==
    IF calls[t].fn = "clean_variant"
    THEN Outcome(clean_variant(calls[t].v, calls[t].left, calls[t].acc, ConcResp))
    ELSE get_chrom_start_stop(calls[t].vs)

\* C17: however the statements of two calls interleave, a call that has
\* ended has the result it has when run alone on the same arguments and
\* accessor answers.
C17_NoInterference ==
    pc = "threads" => \A t \in Threads : calls[t].at = "done" => calls[t].res = Alone(t)

\* two trimming calls, a left one that removed a suffix and a right one that
\* removed a prefix, each took steps while the other was under way, and both
\* have returned
C17_Witness ==
    /\ pc = "threads"
    /\ \A t \in Threads :
          /\ calls[t].fn = "clean_variant"
          /\ calls[t].at = "done"
          /\ calls[t].mixed
          /\ calls[t].res.kind = "return"
    /\ calls[1].left /\ frames[1].e > 0
    /\ ~calls[2].left /\ frames[2].b > 0

----------------------------------------------------------------------------
(* Properties of the result loops of deseqParseResults and runEdgeR *)

\* the p-value and the adjusted p-value of row i of the table
RowPvalue(i) == IF parser = "deseq" THEN res[i].pval ELSE res[i].pvalue

RowPadj(i) == res[i].padj

\* C28: in deseqParseResults, after any number of rows, counts.input,
\* counts.output, the number of result rows, significant + insignificant,
\* all_over + all_under and OK + FAIL are all equal, significant is
\* significant_over + significant_under, and a result row is flagged
\* significant exactly when its padj is a number not above fdr.
C28_Counters ==
    parser = "deseq" =>
        /\ counts.input = rowno
        /\ counts.output = counts.input
        /\ Len(results) = counts.output
        /\ counts.significant + counts.insignificant = counts.input
        /\ counts.all_over + counts.all_under = counts.input
        /\ counts.OK + counts.FAIL = counts.input
        /\ counts.significant = counts.significant_over + counts.significant_under
        /\ \A i \in 1..Len(results) :
              /\ results[i].significant \in {"0", "1"}
              /\ results[i].significant = "1" <=>
                    (~RowPadj(i).na /\ RowPadj(i).val <= fdr)
        /\ counts.significant =
              Cardinality({i \in 1..Len(results) : results[i].significant = "1"})

\* two rows were read and returned: one whose padj equals fdr, flagged, and
\* one whose padj is NA, not flagged
C28_Witness ==
    /\ parser = "deseq"
    /\ pc = "returned"
    /\ Len(results) = 2
    /\ counts.output = 2
    /\ ~RowPadj(1).na /\ RowPadj(1).val = fdr
    /\ results[1].significant = "1"
    /\ RowPadj(2).na
    /\ results[2].significant = "0"
    /\ counts.significant = 1
    /\ counts.insignificant = 1

====
